---- MODULE Spec2Model ----
(***************************************************************************)
(* The ingestion-to-index pipeline of testimony-vault-scribe:              *)
(*   backend/src/app/main.py   create_testimony (the ingestion gateway)    *)
(*   backend/src/app/crud.py   the store helpers                           *)
(*   backend/src/app/tasks.py  transcribe_testimony (the Celery worker)    *)
(* Strings that the code inspects (error messages, transcriptions) are     *)
(* kept as strings in the state and turned into their characters by Chars  *)
(* wherever the code looks inside them.                                    *)
(***************************************************************************)
EXTENDS Integers, Sequences, FiniteSets, TLC

\* ------------------------------------------------------------------ bounds
\* The number of testimonies rows create_testimony inserts under Spec, where
\* every request and every outcome of the external calls is open.
MaxTestimonies == 1
\* The number of rows it inserts under SpecDuplicates, where one recording is
\* submitted again and again.
MaxRecords == 3

\* ------------------------------------------------------- program constants
\* @celery.task(bind=True, max_retries=3, ...)
MAX_RETRIES == 3
\* celery worker --concurrency 2
Concurrency == 2
\* MAX_FILE_SIZE = 10 * 1024 * 1024
MAX_FILE_SIZE == 10 * 1024 * 1024
\* prompt_id = None / a NULL summary_prompt_id
NoPrompt == 0

\* Python's None where the code passes or stores a string or nothing.
None == "None"

\* class ChurchLocation(str, Enum)
ChurchLocation == {"Lausanne", "Zurich", "Bern", "Ginebra", "US"}

\* GCS_BUCKET_NAME and the blob name prefix of create_testimony.
GCS_PREFIX == "gs://bucket/testimony_audio/"

\* ----------------------------------------------------------------- strings
\* The characters of every string whose content the code looks at.
Chars(s) ==
  CASE s = "" -> <<>>
    [] s = " " -> <<" ">>
    [] s = " \n" -> <<" ", "\n">>
    [] s = "Gloria a Dios\n" ->
         <<"G", "l", "o", "r", "i", "a", " ", "a", " ", "D", "i", "o", "s", "\n">>
    [] s = "Gloria a Dios" ->
         <<"G", "l", "o", "r", "i", "a", " ", "a", " ", "D", "i", "o", "s">>
    [] s = " Amen" -> <<" ", "A", "m", "e", "n">>
    [] s = "Amen" -> <<"A", "m", "e", "n">>
    [] s = "Resumen\n#fe " ->
         <<"R", "e", "s", "u", "m", "e", "n", "\n", "#", "f", "e", " ">>
    [] s = "Resumen\n#fe" ->
         <<"R", "e", "s", "u", "m", "e", "n", "\n", "#", "f", "e">>
    [] s = "Resumen #fe" ->
         <<"R", "e", "s", "u", "m", "e", "n", " ", "#", "f", "e">>
    [] s = "Rate limit reached" ->
         <<"R", "a", "t", "e", " ", "l", "i", "m", "i", "t", " ",
           "r", "e", "a", "c", "h", "e", "d">>
    [] s = "Request TIMEOUT" ->
         <<"R", "e", "q", "u", "e", "s", "t", " ", "T", "I", "M", "E", "O", "U", "T">>
    [] s = "Request timed out." ->
         <<"R", "e", "q", "u", "e", "s", "t", " ", "t", "i", "m", "e", "d", " ",
           "o", "u", "t", ".">>
    [] s = "Incorrect API key" ->
         <<"I", "n", "c", "o", "r", "r", "e", "c", "t", " ", "A", "P", "I", " ",
           "k", "e", "y">>
    [] s = "gs://bucket/testimony_audio/" ->
         <<"g", "s", ":", "/", "/", "b", "u", "c", "k", "e", "t", "/",
           "t", "e", "s", "t", "i", "m", "o", "n", "y", "_", "a", "u", "d", "i", "o", "/">>
    [] s = "a.mp3" -> <<"a", ".", "m", "p", "3">>
    [] s = "timeout.mp3" -> <<"t", "i", "m", "e", "o", "u", "t", ".", "m", "p", "3">>
    [] s = "[Errno 2] No such file or directory: '" ->
         <<"[", "E", "r", "r", "n", "o", " ", "2", "]", " ", "N", "o", " ",
           "s", "u", "c", "h", " ", "f", "i", "l", "e", " ", "o", "r", " ",
           "d", "i", "r", "e", "c", "t", "o", "r", "y", ":", " ", "'">>
    [] s = "'" -> <<"'">>
    [] s = "rate limit" -> <<"r", "a", "t", "e", " ", "l", "i", "m", "i", "t">>
    [] s = "timeout" -> <<"t", "i", "m", "e", "o", "u", "t">>

\* The texts the model stores; Str is the inverse of Chars on them.
Texts == {"", " ", " \n", "Gloria a Dios\n", "Gloria a Dios", " Amen", "Amen",
          "Resumen\n#fe ", "Resumen\n#fe", "Resumen #fe"}

Str(cs) == CHOOSE s \in Texts : Chars(s) = cs

UpperCase == <<"A", "B", "C", "D", "E", "F", "G", "H", "I", "J", "K", "L", "M",
               "N", "O", "P", "Q", "R", "S", "T", "U", "V", "W", "X", "Y", "Z">>
LowerCase == <<"a", "b", "c", "d", "e", "f", "g", "h", "i", "j", "k", "l", "m",
               "n", "o", "p", "q", "r", "s", "t", "u", "v", "w", "x", "y", "z">>

\* str.lower(), character by character.
Lower(cs) ==
  [i \in 1..Len(cs) |->
     IF \E k \in 1..26 : UpperCase[k] = cs[i]
     THEN LowerCase[CHOOSE k \in 1..26 : UpperCase[k] = cs[i]]
     ELSE cs[i]]

\* needle in hay
Contains(hay, needle) ==
  \E i \in 1..(Len(hay) - Len(needle) + 1) :
     SubSeq(hay, i, i + Len(needle) - 1) = needle

Whitespace == {" ", "\n"}

RECURSIVE LStrip(_)
LStrip(cs) ==
  IF cs # <<>> /\ Head(cs) \in Whitespace THEN LStrip(Tail(cs)) ELSE cs

RECURSIVE RStrip(_)
RStrip(cs) ==
  IF cs # <<>> /\ cs[Len(cs)] \in Whitespace
  THEN RStrip(SubSeq(cs, 1, Len(cs) - 1)) ELSE cs

\* str.strip()
Strip(s) == Str(RStrip(LStrip(Chars(s))))

\* text.replace("\n", " ")
ReplaceNewlines(s) ==
  Str([i \in 1..Len(Chars(s)) |-> IF Chars(s)[i] = "\n" THEN " " ELSE Chars(s)[i]])

\* Python truthiness of an Optional[str]
Truthy(s) == s # None /\ s # ""


\* ------------------------------------------------------------------ inputs
\* The uploads the model submits: file bytes under a file name.
Filenames == {"a.mp3", "timeout.mp3"}
Uploads ==
  { [bytes |-> "full",    filename |-> "a.mp3"],
    [bytes |-> "trimmed", filename |-> "a.mp3"],
    [bytes |-> "other",   filename |-> "timeout.mp3"],
    [bytes |-> "junk",    filename |-> "a.mp3"],
    [bytes |-> "huge",    filename |-> "a.mp3"] }

\* church_id form values: two members of the enumeration, one outsider and
\* the empty value that selects the default.
ChurchInputs == {"Lausanne", "Zurich", "Roma", ""}

\* len(file_bytes)
Size(bytes) ==
  CASE bytes = "huge"  -> MAX_FILE_SIZE + 1
    [] bytes = "other" -> MAX_FILE_SIZE
    [] OTHER           -> 4096

\* AudioSegment.from_file: the decoded audio as 10-second blocks of raw
\* data, or <<>> with ok = FALSE when pydub cannot decode the bytes.
Decode(bytes) ==
  CASE bytes = "full"    -> [ok |-> TRUE, blocks |-> <<"x", "y", "z", "w">>]
    [] bytes = "trimmed" -> [ok |-> TRUE, blocks |-> <<"x", "y", "z">>]
    [] bytes = "other"   -> [ok |-> TRUE, blocks |-> <<"q">>]
    [] bytes = "huge"    -> [ok |-> TRUE, blocks |-> <<"x", "y", "z", "w">>]
    [] OTHER             -> [ok |-> FALSE, blocks |-> <<>>]

BlockMs == 10 * 1000

\* hashlib.md5(raw_data).hexdigest(): one digest per distinct raw data.
Md5(raw) ==
  CASE raw = <<"x", "y", "z">> -> "h1"
    [] raw = <<"q">>           -> "h2"
    [] OTHER                   -> "h3"

Min(a, b) == IF a < b THEN a ELSE b

\* get_audio_metadata(file_bytes, file_name) -> (duration_ms, file_hash)
get_audio_metadata(bytes) ==
  LET audio == Decode(bytes)
      len   == BlockMs * Len(audio.blocks)
      segment_to_hash == SubSeq(audio.blocks, 1, Min(30000, len) \div BlockMs)
  IN  IF audio.ok
      THEN [duration_ms |-> len, audio_hash |-> Md5(segment_to_hash)]
      ELSE [duration_ms |-> 0, audio_hash |-> None]

\* storage_url = f"gs://{GCS_BUCKET_NAME}/{gcs_filename}", kept as its parts.
StorageUrl(filename) == <<GCS_PREFIX, filename>>
PathChars(path) == Chars(path[1]) \o Chars(path[2])

\* What openai_client.audio.transcriptions.create returns or raises.
Transcriptions == {"", " \n", "Gloria a Dios\n"}
ErrorMessages == {"Rate limit reached", "Request TIMEOUT",
                  "Request timed out.", "Incorrect API key"}
\* message.content of the chat completion.
SummaryContents == {" ", "Resumen\n#fe "}

\* str(FileNotFoundError) raised by open(file_path, "rb")
FileNotFoundMessage(path) ==
  Chars("[Errno 2] No such file or directory: '") \o PathChars(path) \o Chars("'")

\* ------------------------------------------------------------------- state
VARIABLES
  testimonies,          \* the testimonies table: row i has id i
  summary_prompts,      \* the summary_prompts table: row i has id i
  testimony_embeddings, \* testimony id -> the text its embedding was made of
  gcs,                  \* object storage: blob name -> bytes
  queue,                \* transcribe_testimony messages waiting in the broker
  running,              \* the messages the worker processes are working on
  fs,                   \* audio files present on the workers' volume
  openai_client,        \* the module-level client of tasks.py, or None
  faults,               \* whether update_testimony and os.unlink may raise
  testimony_chunks,     \* the testimony_chunks table, in insertion order
  prompt_calls,         \* worker process -> its get_or_create_summary_prompt call
  output                \* what the latest step returned or logged

vars == <<testimonies, summary_prompts, testimony_embeddings, gcs, queue,
          running, fs, openai_client, faults, testimony_chunks, prompt_calls,
          output>>

Ids == 1..Len(testimonies)

Terminal == {"completed", "completed_empty", "failed"}

\* No result: the attempt did not get to open the file.
NoResult == [kind |-> "none", text |-> None, called |-> FALSE, message |-> <<>>]

NoOutput ==
  [kind |-> "none", id |-> 0, status_code |-> 0, duplicate |-> FALSE,
   retries |-> 0, result |-> NoResult, calls |-> {}, state |-> "PENDING",
   file_left |-> FALSE]

\* The JSONResponse of create_testimony (or the HTTPException's status).
Respond(code, id, dup) ==
  [NoOutput EXCEPT !.kind = "response", !.status_code = code, !.id = id,
                   !.duplicate = dup]

\* The log of one attempt of a job: what open and the transcription call
\* gave, the calls made, the Celery state the attempt ended in and whether
\* the file at file_path was still there at the end.
AttemptLog(job, result, calls, state, file_left) ==
  [NoOutput EXCEPT !.kind = "attempt", !.id = job.id, !.retries = job.retries,
                   !.result = result, !.calls = calls, !.state = state,
                   !.file_left = file_left]

ClaimLog(job) ==
  [NoOutput EXCEPT !.kind = "claim", !.id = job.id, !.retries = job.retries]

\* The outcomes of a store update or an unlink: it succeeds, or (under
\* faults) it raises.
CallResults == IF faults THEN BOOLEAN ELSE {TRUE}

\* A worker process that is not inside get_or_create_summary_prompt.
NoPromptCall == [pc |-> "idle", id |-> NoPrompt]

InitCommon ==
  /\ testimonies = <<>>
  /\ summary_prompts = <<>>
  /\ testimony_embeddings = <<>>
  /\ gcs = [f \in Filenames |-> None]
  /\ queue = {}
  /\ running = {}
  /\ fs \in SUBSET {StorageUrl(f) : f \in Filenames}
  /\ openai_client \in {"client", None}
  /\ testimony_chunks = <<>>
  /\ prompt_calls = [process \in 1..Concurrency |-> NoPromptCall]
  /\ output = NoOutput

Init == InitCommon /\ faults = FALSE

\* ------------------------------------------------------------ store helpers
\* A variant of check_duplicate_testimony whose query filters on audio_hash
\* only.
check_duplicate_testimony_any_church(tbl, audio_hash, church_id) ==
  { i \in 1..Len(tbl) : tbl[i].audio_hash = audio_hash }

\* check_duplicate_testimony: the ids of the rows the query returns. The code
\* takes result.data[0]; the query states no ORDER BY, so any matching row
\* may come first.
check_duplicate_testimony(tbl, audio_hash, church_id) ==
  { i \in 1..Len(tbl) :
      /\ tbl[i].audio_hash = audio_hash
      /\ (church_id # None => tbl[i].church_id = church_id) }

\* insert_testimony: the table with the row appended; its id is its position.
insert_testimony(tbl, data) == Append(tbl, data)

\* sha256(f"{prompt_template}|{model_name}|{version}").hexdigest()
TemplateHash(prompt_template, model_name, version) ==
  <<prompt_template, model_name, version>>

\* A variant of get_or_create_summary_prompt that inserts without looking
\* the template_hash up.
create_summary_prompt(tbl, name, version, prompt_template, model_name, temperature, max_tokens) ==
  [id |-> Len(tbl) + 1,
   table |-> Append(tbl,
      [name |-> name, version |-> version,
       prompt_template |-> prompt_template, model_name |-> model_name,
       temperature |-> temperature, max_tokens |-> max_tokens,
       template_hash |-> TemplateHash(prompt_template, model_name, version),
       is_active |-> TRUE])]

\* get_or_create_summary_prompt: the id returned and the table afterwards.
get_or_create_summary_prompt(tbl, name, version, prompt_template, model_name, temperature, max_tokens) ==
  LET template_hash == TemplateHash(prompt_template, model_name, version)
      rows == { i \in 1..Len(tbl) : tbl[i].template_hash = template_hash }
  IN  IF rows # {}
      THEN [id |-> CHOOSE i \in rows : \A j \in rows : i <= j, table |-> tbl]
      ELSE [id |-> Len(tbl) + 1,
            table |-> Append(tbl,
               [name |-> name, version |-> version,
                prompt_template |-> prompt_template, model_name |-> model_name,
                temperature |-> temperature, max_tokens |-> max_tokens,
                template_hash |-> template_hash, is_active |-> TRUE])]

\* upsert_testimony_embedding: one row per testimony id, replaced on conflict.
upsert_testimony_embedding(tbl, tid, embedding) ==
  [tbl EXCEPT ![tid] = embedding]

\* update_data of update_db_status applied to a row.
UpdateData(row, status, transcript, summary, summary_prompt_id) ==
  [row EXCEPT
     !.transcript_status = status,
     !.transcript = IF Truthy(transcript) THEN transcript ELSE @,
     !.summary = IF Truthy(summary) THEN summary ELSE @,
     !.summary_prompt_id =
        IF summary_prompt_id # NoPrompt THEN summary_prompt_id ELSE @]

\* update_db_status: the table after the call. ok = FALSE is update_testimony
\* raising, which the except clause swallows.
update_db_status(tbl, ok, testimony_id, status, transcript, summary, summary_prompt_id) ==
  IF ~ok \/ testimony_id \notin 1..Len(tbl)
  THEN tbl
  ELSE [tbl EXCEPT ![testimony_id] =
          UpdateData(@, status, transcript, summary, summary_prompt_id)]


\* --------------------------------------------------------- create_testimony
\* The row create_testimony inserts.
testimony_data(church_id, upload, meta) ==
  [church_id |-> church_id,
   storage_url |-> StorageUrl(upload.filename),
   transcript_status |-> "pending",
   audio_hash |-> meta.audio_hash,
   audio_duration_ms |-> meta.duration_ms,
   user_file_name |-> upload.filename,
   transcript |-> None,
   summary |-> None,
   summary_prompt_id |-> NoPrompt]

\* existing_testimony and existing_testimony["transcript_status"] == "completed"
IsCompletedDuplicate(tbl, duplicate_id) ==
  tbl[duplicate_id].transcript_status = "completed"

\* raise HTTPException: 413 for an oversized payload, 400 for an unknown
\* church_id or an undecodable file.
Reject(code) ==
  /\ output' = Respond(code, 0, FALSE)
  /\ UNCHANGED <<testimonies, testimony_embeddings, gcs, queue>>

\* A variant of ReturnDuplicate that stores the upload before it returns.
ReturnDuplicateAfterUpload(upload, duplicate_id) ==
  /\ output' = Respond(200, duplicate_id, TRUE)
  /\ gcs' = [gcs EXCEPT ![upload.filename] = upload.bytes]
  /\ UNCHANGED <<testimonies, testimony_embeddings, queue>>

\* The existing testimony is returned, marked as a duplicate.
ReturnDuplicate(upload, duplicate_id) ==
  /\ output' = Respond(200, duplicate_id, TRUE)
  /\ UNCHANGED <<testimonies, testimony_embeddings, gcs, queue>>

\* A variant of Accept that stores and inserts but sends no job.
AcceptWithoutJob(church_id, upload, meta) ==
  /\ gcs' = [gcs EXCEPT ![upload.filename] = upload.bytes]
  /\ testimonies' = insert_testimony(testimonies,
                                     testimony_data(church_id, upload, meta))
  /\ testimony_embeddings' = Append(testimony_embeddings, None)
  /\ queue' = queue
  /\ output' = Respond(201, Len(testimonies) + 1, FALSE)

\* The upload is stored, a pending row inserted and the job sent.
Accept(church_id, upload, meta) ==
  /\ gcs' = [gcs EXCEPT ![upload.filename] = upload.bytes]
  /\ testimonies' = insert_testimony(testimonies,
                                     testimony_data(church_id, upload, meta))
  /\ testimony_embeddings' = Append(testimony_embeddings, None)
  /\ queue' = queue \cup {[id |-> Len(testimonies) + 1,
                           file_path |-> StorageUrl(upload.filename),
                           retries |-> 0]}
  /\ output' = Respond(201, Len(testimonies) + 1, FALSE)

\* A variant of create_testimony that stores the upload before it validates
\* the request.
create_testimony_upload_first(church_in, upload) ==
  LET church_id == IF church_in # "" THEN church_in ELSE "Lausanne"
      meta == get_audio_metadata(upload.bytes)
      matches == check_duplicate_testimony(testimonies, meta.audio_hash, church_id)
      rejected == \/ Size(upload.bytes) > MAX_FILE_SIZE
                  \/ church_in # "" /\ church_in \notin ChurchLocation
                  \/ ~Truthy(meta.audio_hash)
  IN  /\ IF rejected
         THEN /\ output' = Respond(400, 0, FALSE)
              /\ gcs' = [gcs EXCEPT ![upload.filename] = upload.bytes]
              /\ UNCHANGED <<testimonies, testimony_embeddings, queue>>
         ELSE IF matches = {}
         THEN Accept(church_id, upload, meta)
         ELSE \E duplicate_id \in matches :
                IF IsCompletedDuplicate(testimonies, duplicate_id)
                THEN ReturnDuplicate(upload, duplicate_id)
                ELSE Accept(church_id, upload, meta)
      /\ UNCHANGED <<summary_prompts, running, fs, openai_client, faults,
                     testimony_chunks, prompt_calls>>

\* POST /testimonies
create_testimony(church_in, upload) ==
  LET church_id == IF church_in # "" THEN church_in ELSE "Lausanne"
      meta == get_audio_metadata(upload.bytes)
      matches == check_duplicate_testimony(testimonies, meta.audio_hash, church_id)
  IN  /\ IF Size(upload.bytes) > MAX_FILE_SIZE
         THEN Reject(413)
         ELSE IF church_in # "" /\ church_in \notin ChurchLocation
         THEN Reject(400)
         ELSE IF ~Truthy(meta.audio_hash)
         THEN Reject(400)
         ELSE IF matches = {}
         THEN Accept(church_id, upload, meta)
         ELSE \E duplicate_id \in matches :
                IF IsCompletedDuplicate(testimonies, duplicate_id)
                THEN ReturnDuplicate(upload, duplicate_id)
                ELSE Accept(church_id, upload, meta)
      /\ UNCHANGED <<summary_prompts, running, fs, openai_client, faults,
                     testimony_chunks, prompt_calls>>

\* ------------------------------------------------------ transcribe_testimony
\* The summary prompt configuration of tasks.py.
SUMMARY_PROMPT_VERSION == "v2"
CURRENT_SUMMARY_PROMPT == "CURRENT_SUMMARY_PROMPT"
SUMMARY_MODEL == "gpt-4.1-mini"
SUMMARY_TEMPERATURE == "0.3"
SUMMARY_MAX_TOKENS == 250

\* What the chat completion call does: it returns a content or it raises.
ChatOutcomes ==
  { [ok |-> TRUE, content |-> c] : c \in SummaryContents }
    \cup { [ok |-> FALSE, content |-> None] }

\* What a call yields when an exception leaves it.
Exception == "Exception"

\* A variant of generate_summary without the except clause.
generate_summary_uncaught(transcript, chat) ==
  IF ~Truthy(transcript) \/ openai_client = None
  THEN ""
  ELSE IF chat.ok THEN Strip(chat.content) ELSE Exception

\* generate_summary(transcript): "" without a transcript or a client, and ""
\* when the call raises; else the stripped content.
generate_summary(transcript, chat) ==
  IF ~Truthy(transcript) \/ openai_client = None
  THEN ""
  ELSE IF chat.ok THEN Strip(chat.content) ELSE ""

\* generate_embedding_from_summary_text(text): the embedding of the summary
\* on one line (an embedding is a function of its input, so the model keeps
\* the input), or nothing when there is no text, no client or the call raises.
generate_embedding_from_summary_text(text, emb_ok) ==
  IF ~Truthy(text) \/ openai_client = None
  THEN None
  ELSE IF emb_ok THEN ReplaceNewlines(text) ELSE None

\* A variant of IsTransient that takes every error for a transient one.
IsTransientAlways(message) == TRUE

\* "rate limit" in str(e).lower() or "timeout" in str(e).lower()
IsTransient(message) ==
  \/ Contains(Lower(message), Chars("rate limit"))
  \/ Contains(Lower(message), Chars("timeout"))

\* A variant of RetryAllowed that gives up one retry early.
RetryAllowedOnceLess(retries) == retries + 1 < MAX_RETRIES

\* self.retry(...) schedules the retry unless request.retries + 1 exceeds
\* max_retries, in which case it raises MaxRetriesExceededError.
RetryAllowed(retries) == ~(retries + 1 > MAX_RETRIES)

\* What open(file_path) and the transcription call do in one attempt.
AttemptResults(job) ==
  IF job.file_path \notin fs
  THEN { [kind |-> "error", text |-> None, called |-> FALSE,
          message |-> FileNotFoundMessage(job.file_path)] }
  ELSE { [kind |-> "text", text |-> t, called |-> TRUE, message |-> <<>>] :
           t \in Transcriptions }
       \cup { [kind |-> "error", text |-> None, called |-> TRUE,
               message |-> Chars(m)] : m \in ErrorMessages }

\* A variant of TranscriptOf that does not strip the transcription.
TranscriptUnstripped(transcription) ==
  IF Truthy(transcription) THEN transcription ELSE ""

\* transcript = transcription.strip() if transcription else ""
TranscriptOf(transcription) ==
  IF Truthy(transcription) THEN Strip(transcription) ELSE ""

\* The effect of an attempt on the stores and the broker, with the Celery
\* state it ends in and the calls it made.
Effect(tbl, prompts, embeddings, q, state, calls) ==
  [testimonies |-> tbl, summary_prompts |-> prompts,
   testimony_embeddings |-> embeddings, queue |-> q,
   state |-> state, calls |-> calls]

\* A variant of OnTranscript in which a failure of the prompt registry or of
\* the summary call is not caught and reaches the task's except clause.
OnTranscriptEscalating(job, transcript, prompt_ok, chat, emb_ok, upsert_ok, ok) ==
  IF prompt_ok /\ chat.ok
  THEN Effect(update_db_status(testimonies, ok, job.id, "completed", transcript,
                               generate_summary(transcript, chat), NoPrompt),
              summary_prompts, testimony_embeddings, queue, "SUCCESS",
              {"transcription", "prompt", "summary"})
  ELSE Effect(update_db_status(testimonies, ok, job.id, "failed", None, None,
                               NoPrompt),
              summary_prompts, testimony_embeddings, queue, "SUCCESS",
              {"transcription", "prompt"})

\* if transcript: ... update_db_status(testimony_id, "completed", transcript,
\* summary, summary_prompt_id=prompt_id)
OnTranscript(job, transcript, prompt_ok, chat, emb_ok, upsert_ok, ok) ==
  LET registry == get_or_create_summary_prompt(summary_prompts, "summary",
                     SUMMARY_PROMPT_VERSION, CURRENT_SUMMARY_PROMPT,
                     SUMMARY_MODEL, SUMMARY_TEMPERATURE, SUMMARY_MAX_TOKENS)
      prompt_id == IF prompt_ok THEN registry.id ELSE NoPrompt
      summary == generate_summary(transcript, chat)
      embedding == IF Truthy(summary)
                   THEN generate_embedding_from_summary_text(summary, emb_ok)
                   ELSE None
  IN  Effect(
        update_db_status(testimonies, ok, job.id, "completed", transcript,
                         summary, prompt_id),
        IF prompt_ok THEN registry.table ELSE summary_prompts,
        IF Truthy(embedding) /\ upsert_ok /\ job.id \in 1..Len(testimony_embeddings)
        THEN upsert_testimony_embedding(testimony_embeddings, job.id, embedding)
        ELSE testimony_embeddings,
        queue,
        "SUCCESS",
        {"transcription", "prompt", "summary"}
          \cup (IF Truthy(summary) THEN {"embedding"} ELSE {})
          \cup (IF Truthy(embedding) THEN {"upsert"} ELSE {}))

\* A variant of OnEmpty that stores the text the transcription call returned.
OnEmptyKeepingText(job, transcription, ok) ==
  Effect(update_db_status(testimonies, ok, job.id, "completed_empty",
                          transcription, None, NoPrompt),
         summary_prompts, testimony_embeddings, queue,
         "SUCCESS", {"transcription"})

\* else: update_db_status(testimony_id, "completed_empty")
OnEmpty(job, transcription, ok) ==
  Effect(update_db_status(testimonies, ok, job.id, "completed_empty", None,
                          None, NoPrompt),
         summary_prompts, testimony_embeddings, queue,
         "SUCCESS", {"transcription"})

\* A variant of OnException that marks the record failed before it decides
\* on the retry, as backend/app/tasks.py does.
OnExceptionFailedFirst(job, result, ok) ==
  LET calls == IF result.called THEN {"transcription"} ELSE {}
      failed == update_db_status(testimonies, ok, job.id, "failed", None,
                                 None, NoPrompt)
  IN  IF IsTransient(result.message) /\ RetryAllowed(job.retries)
      THEN Effect(failed, summary_prompts, testimony_embeddings,
                  queue \cup {[job EXCEPT !.retries = @ + 1]}, "RETRY", calls)
      ELSE Effect(failed, summary_prompts, testimony_embeddings, queue,
                  "SUCCESS", calls)

\* except Exception as e: retry a transient error, else mark failed.
OnException(job, result, ok) ==
  LET calls == IF result.called THEN {"transcription"} ELSE {}
      failed == update_db_status(testimonies, ok, job.id, "failed", None,
                                 None, NoPrompt)
  IN  IF IsTransient(result.message) /\ RetryAllowed(job.retries)
      THEN Effect(testimonies, summary_prompts, testimony_embeddings,
                  queue \cup {[job EXCEPT !.retries = @ + 1]}, "RETRY", calls)
      ELSE Effect(failed, summary_prompts, testimony_embeddings, queue,
                  "SUCCESS", calls)

\* finally: if os.path.exists(file_path): os.unlink(file_path)
CleanUp(files, file_path, unlink_ok) ==
  IF file_path \in files /\ unlink_ok THEN files \ {file_path} ELSE files

\* if openai_client is None: update_db_status(testimony_id, "failed");
\* raise RuntimeError
WithoutClient(job, ok) ==
  Effect(update_db_status(testimonies, ok, job.id, "failed", None, None, NoPrompt),
         summary_prompts, testimony_embeddings, queue \ {job}, "FAILURE", {})

\* An attempt on a worker whose clients are not initialised: the record is
\* marked failed and RuntimeError ends the task.
AttemptWithoutClient ==
  /\ Cardinality(running) < Concurrency
  /\ openai_client = None
  /\ \E job \in queue, ok \in CallResults :
       LET effect == WithoutClient(job, ok) IN
       /\ queue' = effect.queue
       /\ testimonies' = effect.testimonies
       /\ output' = AttemptLog(job, NoResult, effect.calls, effect.state,
                               job.file_path \in fs)
  /\ UNCHANGED <<summary_prompts, testimony_embeddings, gcs, running, fs,
                 openai_client, faults, testimony_chunks, prompt_calls>>

\* A variant of MarkProcessing that leaves the record as it is.
MarkProcessingSkipped(tbl, ok, testimony_id) == tbl

\* update_db_status(testimony_id, "processing")
MarkProcessing(tbl, ok, testimony_id) ==
  update_db_status(tbl, ok, testimony_id, "processing", None, None, NoPrompt)

\* The start of an attempt: a worker process takes a message and marks the
\* record processing.
Claim ==
  /\ Cardinality(running) < Concurrency
  /\ openai_client # None
  /\ \E job \in queue, ok \in CallResults :
       /\ queue' = queue \ {job}
       /\ testimonies' = MarkProcessing(testimonies, ok, job.id)
       /\ running' = running \cup {job}
       /\ output' = ClaimLog(job)
  /\ UNCHANGED <<summary_prompts, testimony_embeddings, gcs, fs, openai_client,
                 faults, testimony_chunks, prompt_calls>>

\* What handling the result of open and the transcription call can lead to,
\* over the outcomes of the registry, chat, embedding and upsert calls.
Effects(job, result, ok) ==
  IF result.kind = "error"
  THEN { OnException(job, result, ok) }
  ELSE IF Truthy(TranscriptOf(result.text))
  THEN { OnTranscript(job, TranscriptOf(result.text), prompt_ok, chat, emb_ok,
                      upsert_ok, ok) :
           prompt_ok \in BOOLEAN, chat \in ChatOutcomes, emb_ok \in BOOLEAN,
           upsert_ok \in BOOLEAN }
  ELSE { OnEmpty(job, result.text, ok) }

\* The rest of the attempt: the file is opened and transcribed, the result
\* handled, and the audio file cleaned up.
Process ==
  \E job \in running, ok \in CallResults, unlink_ok \in CallResults :
    \E result \in AttemptResults(job) :
      \E effect \in Effects(job, result, ok) :
        /\ testimonies' = effect.testimonies
        /\ summary_prompts' = effect.summary_prompts
        /\ testimony_embeddings' = effect.testimony_embeddings
        /\ queue' = effect.queue
        /\ fs' = CleanUp(fs, job.file_path, unlink_ok)
        /\ running' = running \ {job}
        /\ output' = AttemptLog(job, result, effect.calls, effect.state,
                                job.file_path \in fs')
        /\ UNCHANGED <<gcs, openai_client, faults, testimony_chunks, prompt_calls>>

\* A request arrives: any church_id form value with any upload.
Submit ==
  \E church_in \in ChurchInputs, upload \in Uploads :
    /\ create_testimony(church_in, upload)
    /\ Len(testimonies') <= MaxTestimonies

Next ==
  \/ Submit
  \/ AttemptWithoutClient
  \/ Claim
  \/ Process

Spec == Init /\ [][Next]_vars

\* One recording submitted repeatedly for the default church, to workers
\* whose client is initialised.
InitDuplicates == Init /\ openai_client = "client"

Resubmit ==
  \E upload \in {u \in Uploads : u.bytes \in {"full", "trimmed"}} :
    /\ create_testimony("", upload)
    /\ Len(testimonies') <= MaxRecords

NextDuplicates ==
  \/ Resubmit
  \/ Claim
  \/ Process

SpecDuplicates == InitDuplicates /\ [][NextDuplicates]_vars

\* ------------------------------------------------------------------ claims
\* The record of testimony i, and what the latest step was.
Status(i) == testimonies[i].transcript_status
Attempted == output.kind = "attempt"
Raised == Attempted /\ output.result.kind = "error"
Returned == Attempted /\ output.result.kind = "text"
Requeued(id) == { job \in queue : job.id = id }

\* The message contains 'rate limit' or 'timeout', case-insensitively.
MentionsRateLimitOrTimeout(message) ==
  \/ Contains(Lower(message), Chars("rate limit"))
  \/ Contains(Lower(message), Chars("timeout"))

\* The text is empty or whitespace only.
Blank(text) == \A k \in 1..Len(Chars(text)) : Chars(text)[k] \in Whitespace

\* C1: an attempt that raises an error whose message contains 'rate limit'
\* or 'timeout' is retried while fewer than 3 retries were made (the job is
\* back in the queue with one more retry and the record is not failed); the
\* attempt after 3 retries marks the record failed and queues nothing; an
\* attempt that ends the job leaves the record in a terminal status; and a
\* record in pending or processing always has its job queued or running.
C1 ==
  /\ (Raised /\ MentionsRateLimitOrTimeout(output.result.message)) =>
       IF output.retries < 3
       THEN /\ output.state = "RETRY"
            /\ Requeued(output.id) =
                 {[id |-> output.id,
                   file_path |-> testimonies[output.id].storage_url,
                   retries |-> output.retries + 1]}
            /\ Status(output.id) = "processing"
       ELSE /\ output.state # "RETRY"
            /\ Requeued(output.id) = {}
            /\ Status(output.id) = "failed"
  /\ (Attempted /\ output.state # "RETRY") => Status(output.id) \in Terminal
  /\ \A i \in Ids :
       Status(i) \in {"pending", "processing"} =>
         \E job \in queue \cup running : job.id = i

\* Every attempt of one job raised such an error and the fourth marked the
\* record failed.
C1_Witness ==
  /\ Raised
  /\ MentionsRateLimitOrTimeout(output.result.message)
  /\ output.retries = 3
  /\ Status(output.id) = "failed"

\* C2: in every reachable state a record whose transcript_status is not
\* completed has no transcript and no summary.
C2 ==
  \A i \in Ids :
    Status(i) # "completed" =>
      /\ testimonies[i].transcript = None
      /\ testimonies[i].summary = None

\* The transcription call returned a text and the record is not completed.
C2_Witness == Returned /\ Status(output.id) # "completed"

\* The status of record i before and after a step.
Transition(i) ==
  <<testimonies[i].transcript_status, testimonies'[i].transcript_status>>
Changed(i) == testimonies'[i].transcript_status # testimonies[i].transcript_status
ClaimedTransitions ==
  {<<"pending", "processing">>} \cup {<<"processing", t>> : t \in Terminal}

\* C3 as stated: a step that changes a record's status takes it from pending
\* to processing or from processing to completed, completed_empty or failed.
C3_AsStated ==
  [][\A i \in Ids : Changed(i) => Transition(i) \in ClaimedTransitions]_vars

\* C3, amended: a step that changes a record's status takes it from pending
\* to processing, from processing to completed, completed_empty or failed,
\* or, on a worker whose OpenAI client is not initialised, from pending to
\* failed; so no step changes a completed, completed_empty or failed status.
C3 ==
  [][\A i \in Ids :
       Changed(i) =>
         \/ Transition(i) \in ClaimedTransitions
         \/ Transition(i) = <<"pending", "failed">> /\ openai_client = None]_vars

\* A worker without a client has marked a record failed, and a later step
\* was taken with the record in a terminal status.
C3_Witness ==
  /\ openai_client = None
  /\ output.kind = "response"
  /\ \E i \in Ids : Status(i) = "failed"

\* Record i is completed and carries the fingerprint and the origin of row.
CompletedTwin(i, row) ==
  /\ Status(i) = "completed"
  /\ testimonies[i].audio_hash = row.audio_hash
  /\ testimonies[i].church_id = row.church_id

\* C4: no step inserts a record whose audio_hash and church_id are those of a
\* record that is completed when the submission arrives, whatever other
\* records with that audio_hash and church_id exist.
C4_NoNewRecord ==
  [][Len(testimonies') > Len(testimonies) =>
       ~\E i \in Ids : CompletedTwin(i, testimonies'[Len(testimonies')])]_vars

\* C5: when the transcription call has returned empty or whitespace-only
\* text, the attempt leaves the record completed_empty, has made no call but
\* the transcription call (no prompt registry, summary, embedding or upsert
\* call), and has written no transcript, summary, prompt id or embedding.
C5 ==
  (Returned /\ Blank(output.result.text)) =>
    /\ Status(output.id) = "completed_empty"
    /\ output.calls = {"transcription"}
    /\ output.state = "SUCCESS"
    /\ testimonies[output.id].transcript = None
    /\ testimonies[output.id].summary = None
    /\ testimonies[output.id].summary_prompt_id = NoPrompt
    /\ testimony_embeddings[output.id] = None

\* The transcription call returned whitespace and the record is completed_empty.
C5_Witness ==
  /\ Returned
  /\ output.result.text = " \n"
  /\ Status(output.id) = "completed_empty"

\* C6: when the transcription call has returned non-empty text, the attempt
\* leaves the record completed with the stripped text as its transcript,
\* ends in success and queues no retry, whatever the prompt registry, the
\* summary call, the embedding call and the upsert did.
C6 ==
  (Returned /\ ~Blank(output.result.text)) =>
    /\ Status(output.id) = "completed"
    /\ testimonies[output.id].transcript = Strip(output.result.text)
    /\ output.state = "SUCCESS"
    /\ Requeued(output.id) = {}

\* A text was transcribed, the prompt registry failed, a summary was made
\* and no embedding was stored; the record is completed.
C6_Witness ==
  /\ Returned
  /\ Status(output.id) = "completed"
  /\ testimonies[output.id].summary_prompt_id = NoPrompt
  /\ "embedding" \in output.calls
  /\ testimony_embeddings[output.id] = None

\* C7: an attempt that raises an error whose message contains neither
\* 'rate limit' nor 'timeout' leaves the record failed and queues no retry.
C7 ==
  (Raised /\ ~MentionsRateLimitOrTimeout(output.result.message)) =>
    /\ Status(output.id) = "failed"
    /\ output.state # "RETRY"
    /\ Requeued(output.id) = {}

\* The transcription call raised such an error and the record is failed.
C7_Witness ==
  /\ Raised
  /\ output.result.called
  /\ ~MentionsRateLimitOrTimeout(output.result.message)
  /\ Status(output.id) = "failed"

\* C8: a step in which the external transcription call is made starts with
\* the job's record in processing, never in pending.
C8 ==
  [][(output'.kind = "attempt" /\ "transcription" \in output'.calls) =>
       /\ output'.id \in Ids
       /\ Status(output'.id) = "processing"]_vars

\* An attempt has made the transcription call.
C8_Witness == Attempted /\ "transcription" \in output.calls

\* C9: when an attempt has ended, on whatever exit path, no audio file is
\* left at the job's file_path.
C9_FileRemoved == Attempted => ~output.file_left

\* C10: a create_testimony step that answers duplicate=true answers 200 with
\* the id of a completed record and leaves object storage, the testimonies
\* table and the queue unchanged; and a step that inserts a record is one
\* whose lookup found nothing or could find a record that is not completed.
C10 ==
  [][output'.kind = "response" =>
       /\ output'.duplicate =>
            /\ UNCHANGED <<gcs, testimonies, queue>>
            /\ output'.status_code = 200
            /\ output'.id \in Ids
            /\ Status(output'.id) = "completed"
       /\ Len(testimonies') > Len(testimonies) =>
            LET row == testimonies'[Len(testimonies')]
                found == check_duplicate_testimony(testimonies, row.audio_hash,
                                                   row.church_id)
            IN  /\ ~output'.duplicate
                /\ found = {} \/ \E i \in found : Status(i) # "completed"]_vars

\* create_testimony has answered with a duplicate.
C10_Witness == output.kind = "response" /\ output.duplicate

\* Records i and j are two records of one fingerprint and origin.
Twins(i, j) ==
  /\ i # j
  /\ testimonies[i].audio_hash = testimonies[j].audio_hash
  /\ testimonies[i].church_id = testimonies[j].church_id

InFlight(i) == Status(i) \in {"pending", "processing"}

\* C11: at any time at most one record of a given audio_hash and church_id
\* is in pending or processing.
C11_OneInFlight ==
  \A i \in Ids, j \in Ids : Twins(i, j) => ~(InFlight(i) /\ InFlight(j))

\* The request is one create_testimony must reject: the payload is larger
\* than MAX_FILE_SIZE, the church_id is given and not in the enumeration, or
\* the audio has no fingerprint.
MustReject(church_in, upload) ==
  \/ Size(upload.bytes) > MAX_FILE_SIZE
  \/ church_in \notin ChurchLocation \cup {""}
  \/ get_audio_metadata(upload.bytes).audio_hash = None

\* C12: a create_testimony step for such a request answers 413 or 400 and
\* leaves object storage, the testimonies table and the queue unchanged.
C12 ==
  [][\A church_in \in ChurchInputs, upload \in Uploads :
       (MustReject(church_in, upload) /\ create_testimony(church_in, upload)) =>
         /\ output'.status_code \in {400, 413}
         /\ UNCHANGED <<gcs, testimonies, queue>>]_vars

\* A request was rejected while a record and its upload exist.
C12_Witness ==
  /\ output.kind = "response"
  /\ output.status_code \in {400, 413}
  /\ Len(testimonies) = 1

\* The job create_testimony sends for record i of table tbl.
JobOf(tbl, i) == [id |-> i, file_path |-> tbl[i].storage_url, retries |-> 0]

\* C13: a step that inserts a record inserts exactly one, with status
\* pending, and adds to the queue exactly the one job carrying its id and
\* storage_url; a create_testimony step that inserts nothing enqueues
\* nothing; afterwards every job belongs to a record and carries its
\* storage_url, no record has two jobs, and every pending record has its job
\* in the queue.
C13 ==
  [][/\ Len(testimonies') > Len(testimonies) =>
          /\ Len(testimonies') = Len(testimonies) + 1
          /\ testimonies'[Len(testimonies')].transcript_status = "pending"
          /\ JobOf(testimonies', Len(testimonies')) \notin queue
          /\ queue' = queue \cup {JobOf(testimonies', Len(testimonies'))}
          /\ output'.kind = "response"
          /\ output'.id = Len(testimonies')
     /\ (output'.kind = "response" /\ Len(testimonies') = Len(testimonies)) =>
          queue' = queue
     /\ \A job \in queue' \cup running' :
          /\ job.id \in 1..Len(testimonies')
          /\ job.file_path = testimonies'[job.id].storage_url
          /\ \A other \in queue' \cup running' : other.id = job.id => other = job
     /\ \A i \in 1..Len(testimonies') :
          testimonies'[i].transcript_status = "pending" =>
            JobOf(testimonies', i) \in queue']_vars

\* A request was accepted and its job is in the queue.
C13_Witness ==
  /\ output.kind = "response"
  /\ output.status_code = 201
  /\ output.id \in Ids
  /\ JobOf(testimonies, output.id) \in queue

\* ------------------------------------------------- the prompt registry alone
\* The configuration the worker registers, and the configurations that
\* differ from it in one argument.
WorkerPrompt ==
  [name |-> "summary", version |-> SUMMARY_PROMPT_VERSION,
   prompt_template |-> CURRENT_SUMMARY_PROMPT, model_name |-> SUMMARY_MODEL,
   temperature |-> SUMMARY_TEMPERATURE, max_tokens |-> SUMMARY_MAX_TOKENS]

PromptArgs ==
  { WorkerPrompt,
    [WorkerPrompt EXCEPT !.name = "resumen"],
    [WorkerPrompt EXCEPT !.version = "v3"],
    [WorkerPrompt EXCEPT !.prompt_template = "OTHER_SUMMARY_PROMPT"],
    [WorkerPrompt EXCEPT !.model_name = "gpt-4o-mini"],
    [WorkerPrompt EXCEPT !.temperature = "0.7"],
    [WorkerPrompt EXCEPT !.max_tokens = SUMMARY_MAX_TOKENS + SUMMARY_MAX_TOKENS] }

\* No call yet.
NoCall == [id |-> NoPrompt, args |-> WorkerPrompt]

\* One call of get_or_create_summary_prompt; the output keeps its arguments
\* and the id it returned, and those of the call before it.
RegisterPrompt ==
  \E args \in PromptArgs :
    LET registry == get_or_create_summary_prompt(summary_prompts, args.name,
                      args.version, args.prompt_template, args.model_name,
                      args.temperature, args.max_tokens)
    IN  /\ summary_prompts' = registry.table
        /\ output' = [kind |-> "prompt", id |-> registry.id, args |-> args,
                      previous |-> IF output.kind = "prompt"
                                   THEN [id |-> output.id, args |-> output.args]
                                   ELSE NoCall]
        /\ UNCHANGED <<testimonies, testimony_embeddings, gcs, queue, running,
                       fs, openai_client, faults, testimony_chunks, prompt_calls>>

InitRegistry == Init /\ fs = {} /\ openai_client = "client"

NextRegistry == RegisterPrompt

SpecRegistry == InitRegistry /\ [][NextRegistry]_vars

\* Two calls in sequence have been made.
CalledTwice == output.kind = "prompt" /\ output.previous.id # NoPrompt

\* The two configurations agree in prompt_template, model_name and version.
SameTemplate(a, b) ==
  /\ a.prompt_template = b.prompt_template
  /\ a.model_name = b.model_name
  /\ a.version = b.version

\* C14: when two calls in sequence had the same prompt_template, model_name
\* and version, the second returned the id the first returned, and the table
\* holds exactly one row of that template, model and version.
C14 ==
  (CalledTwice /\ SameTemplate(output.args, output.previous.args)) =>
    /\ output.id = output.previous.id
    /\ Cardinality({ i \in 1..Len(summary_prompts) :
                       SameTemplate(summary_prompts[i], output.args) }) = 1

\* The same template was registered twice, with other settings the second time.
C14_Witness ==
  /\ CalledTwice
  /\ SameTemplate(output.args, output.previous.args)
  /\ output.args # output.previous.args
  /\ Len(summary_prompts) > 1

\* C15: two calls in sequence whose arguments differ in any argument have
\* returned different ids.
C15_DifferentIds ==
  (CalledTwice /\ output.args # output.previous.args) =>
    output.id # output.previous.id

\* ---------------------------------------------------- generate_summary alone
\* The transcripts generate_summary is called with.
SummaryInputs == {None, "", " ", "Amen", "Gloria a Dios"}

\* One call of generate_summary, with what the chat completion call would do.
Summarise ==
  \E transcript \in SummaryInputs, chat \in ChatOutcomes :
    /\ output' = [kind |-> "summary", transcript |-> transcript, chat |-> chat,
                  value |-> generate_summary(transcript, chat)]
    /\ UNCHANGED <<testimonies, summary_prompts, testimony_embeddings, gcs,
                   queue, running, fs, openai_client, faults,
                   testimony_chunks, prompt_calls>>

NextSummary == Summarise

SpecSummary == Init /\ [][NextSummary]_vars

\* C16: no exception leaves generate_summary, and it returns the empty
\* string when the transcript is missing or empty, when the client is not
\* initialised and when the chat completion call raises.
C16 ==
  output.kind = "summary" =>
    /\ output.value # Exception
    /\ (\/ output.transcript \in {None, ""}
        \/ openai_client = None
        \/ ~output.chat.ok) => output.value = ""

\* The chat completion call raised for a transcript, with a client.
C16_Witness ==
  /\ output.kind = "summary"
  /\ output.transcript = "Gloria a Dios"
  /\ openai_client # None
  /\ ~output.chat.ok
  /\ output.value = ""

\* ------------------------------------------------------------- make_chunks
\* A text is kept as the words text.split() gives; a word that ends in a
\* full stop ends a sentence.
Words == {"gloria", "amen."}
EndsSentence(word) == word = "amen."

\* The texts of at most MaxWords words.
MaxWords == 4
RECURSIVE TextsOfLength(_)
TextsOfLength(n) ==
  IF n = 0 THEN {<<>>}
  ELSE {Append(t, w) : t \in TextsOfLength(n - 1), w \in Words}
ChunkTexts == UNION {TextsOfLength(n) : n \in 0..MaxWords}

\* _tok_len with the fallback tokenizer: len(txt.split())
_tok_len(txt) == Len(txt)

\* nltk.sent_tokenize: the sentences of the text, in order.
RECURSIVE sent_tokenize(_, _)
sent_tokenize(text, current) ==
  IF text = <<>>
  THEN IF current = <<>> THEN <<>> ELSE <<current>>
  ELSE IF EndsSentence(Head(text))
  THEN <<Append(current, Head(text))>> \o sent_tokenize(Tail(text), <<>>)
  ELSE sent_tokenize(Tail(text), Append(current, Head(text)))

\* " ".join(buf) for a list of sentences
RECURSIVE Join(_)
Join(buf) == IF buf = <<>> THEN <<>> ELSE Head(buf) \o Join(Tail(buf))

\* buf[-overlap:] if overlap else []
LastOf(buf, overlap) ==
  IF overlap = 0 THEN <<>>
  ELSE IF overlap >= Len(buf) THEN buf
  ELSE SubSeq(buf, Len(buf) - overlap + 1, Len(buf))

Chunk(idx, text, tokens) == [idx |-> idx, text |-> text, tokens |-> tokens]

\* for s in sents: ... ; if buf: yield ...
RECURSIVE SentenceLoop(_, _, _, _, _, _, _)
SentenceLoop(sents, buf, buf_tok, idx, chunks, max_tokens, overlap) ==
  IF sents = <<>>
  THEN IF buf # <<>> THEN Append(chunks, Chunk(idx, Join(buf), buf_tok)) ELSE chunks
  ELSE LET s == Head(sents)
           t == _tok_len(s)
           full == buf_tok + t > max_tokens
           kept == IF full THEN LastOf(buf, overlap) ELSE buf
           kept_tok == IF full
                       THEN (IF kept # <<>> THEN _tok_len(Join(kept)) ELSE 0)
                       ELSE buf_tok
       IN  SentenceLoop(Tail(sents), Append(kept, s), kept_tok + t,
                        IF full THEN idx + 1 ELSE idx,
                        IF full THEN Append(chunks, Chunk(idx, Join(buf), buf_tok))
                                ELSE chunks,
                        max_tokens, overlap)

\* words[i : i + max_tokens]
Slice(words, i, n) ==
  IF i >= Len(words) THEN <<>> ELSE SubSeq(words, i + 1, Min(i + n, Len(words)))

\* for i in range(0, len(words), max_tokens - overlap): yield ...
RECURSIVE WordLoop(_, _, _, _)
WordLoop(words, i, max_tokens, step) ==
  IF i >= Len(words) THEN <<>>
  ELSE <<Chunk(i \div step, Slice(words, i, max_tokens),
               Len(Slice(words, i, max_tokens)))>>
       \o WordLoop(words, i + step, max_tokens, step)

\* The chunks a call yields, and whether an exception ended it.
Yielded(chunks, raised) == [chunks |-> chunks, raised |-> raised]

\* The part of make_chunks after the early return: the sentence path, or the
\* word windows when sent_tokenize raises LookupError (punkt = FALSE).
\* range() raises ValueError for a step of 0 and is empty for a negative one.
SplitChunks(text, max_tokens, overlap, punkt) ==
  IF punkt
  THEN Yielded(SentenceLoop(sent_tokenize(text, <<>>), <<>>, 0, 0, <<>>,
                            max_tokens, overlap), FALSE)
  ELSE IF max_tokens - overlap = 0 THEN Yielded(<<>>, TRUE)
  ELSE IF max_tokens - overlap < 0 THEN Yielded(<<>>, FALSE)
  ELSE Yielded(WordLoop(text, 0, max_tokens, max_tokens - overlap), FALSE)

\* A variant of make_chunks without the early return for a short text.
make_chunks_always_split(text, max_tokens, overlap, punkt) ==
  SplitChunks(text, max_tokens, overlap, punkt)

\* make_chunks(text, max_tokens, overlap)
make_chunks(text, max_tokens, overlap, punkt) ==
  IF _tok_len(text) <= max_tokens
  THEN Yielded(<<Chunk(0, text, _tok_len(text))>>, FALSE)
  ELSE SplitChunks(text, max_tokens, overlap, punkt)

\* One call of make_chunks.
MakeChunks ==
  \E text \in ChunkTexts, max_tokens \in 1..(MaxWords - 1),
     overlap \in 0..(MaxWords - 1), punkt \in BOOLEAN :
    /\ output' = [kind |-> "chunks", text |-> text, max_tokens |-> max_tokens,
                  overlap |-> overlap, punkt |-> punkt,
                  result |-> make_chunks(text, max_tokens, overlap, punkt)]
    /\ UNCHANGED <<testimonies, summary_prompts, testimony_embeddings, gcs,
                   queue, running, fs, openai_client, faults,
                   testimony_chunks, prompt_calls>>

InitChunks == Init /\ fs = {} /\ openai_client = "client"

NextChunks == MakeChunks

SpecChunks == InitChunks /\ [][NextChunks]_vars

\* The token length of the text exceeds max_tokens.
Long == output.kind = "chunks" /\ Len(output.text) > output.max_tokens
Short == output.kind = "chunks" /\ Len(output.text) <= output.max_tokens

\* C17: for a text whose token length exceeds max_tokens, every chunk
\* yielded has a token count, stated and actual, of at most max_tokens.
C17_ChunkSize ==
  Long =>
    \A k \in 1..Len(output.result.chunks) :
      /\ output.result.chunks[k].tokens <= output.max_tokens
      /\ Len(output.result.chunks[k].text) <= output.max_tokens

\* C18: for a text whose token length is at most max_tokens, make_chunks
\* yields exactly one chunk, with idx 0, the whole input as its text and the
\* token length of the input as its tokens.
C18 ==
  Short =>
    /\ ~output.result.raised
    /\ output.result.chunks =
         <<[idx |-> 0, text |-> output.text, tokens |-> Len(output.text)]>>

\* A text of several sentences that is exactly max_tokens long, chunked with
\* an overlap and without the sentence tokenizer.
C18_Witness ==
  /\ Short
  /\ Len(output.text) = output.max_tokens
  /\ Len(output.text) > 1
  /\ output.overlap > 0
  /\ ~output.punkt
  /\ Len(output.result.chunks) = 1

\* ------------------------------------------------------------ the backfills
\* What the chat completion call returns when a summary is made again.
ResummaryOutcomes ==
  ChatOutcomes \cup {[ok |-> TRUE, content |-> " Amen"]}

\* get_testimonies_with_transcripts_needing_update: the ids of the rows with
\* a transcript whose summary_prompt_id is not the current one.
get_testimonies_with_transcripts_needing_update(tbl, current_prompt_id) ==
  { i \in 1..Len(tbl) :
      /\ Truthy(IF tbl[i].transcript = None THEN "" ELSE Strip(tbl[i].transcript))
      /\ tbl[i].summary_prompt_id # current_prompt_id }

\* backfill_resummaries_with_prompt.main for one testimony of its list: the
\* prompt row is ensured, the summary generated again and, unless it is
\* empty, written with the prompt id.
Resummarise ==
  LET registry == get_or_create_summary_prompt(summary_prompts, "summary",
                     SUMMARY_PROMPT_VERSION, CURRENT_SUMMARY_PROMPT,
                     SUMMARY_MODEL, SUMMARY_TEMPERATURE, SUMMARY_MAX_TOKENS)
  IN  \E tid \in get_testimonies_with_transcripts_needing_update(testimonies,
                                                                 registry.id),
         chat \in ResummaryOutcomes :
        LET summary == generate_summary(Strip(testimonies[tid].transcript), chat)
        IN  /\ summary_prompts' = registry.table
            /\ testimonies' =
                 IF Truthy(summary)
                 THEN [testimonies EXCEPT ![tid].summary = summary,
                                          ![tid].summary_prompt_id = registry.id]
                 ELSE testimonies
            /\ output' = [NoOutput EXCEPT !.kind = "resummary", !.id = tid]
            /\ UNCHANGED <<testimony_embeddings, gcs, queue, running, fs,
                           openai_client, faults, testimony_chunks, prompt_calls>>

\* fetch_summaries: the ids of the rows with a summary that is not blank.
fetch_summaries(tbl) ==
  { i \in 1..Len(tbl) : tbl[i].summary # None /\ Truthy(Strip(tbl[i].summary)) }

\* fetch_existing_ids
fetch_existing_ids(embeddings) ==
  { i \in 1..Len(embeddings) : embeddings[i] # None }

\* embed_existing_summaries.run: the summaries of the testimonies without an
\* embedding are embedded on one line and upserted.
EmbedExisting ==
  LET todo == fetch_summaries(testimonies) \ fetch_existing_ids(testimony_embeddings)
  IN  /\ todo # {}
      /\ testimony_embeddings' =
           [i \in 1..Len(testimony_embeddings) |->
              IF i \in todo THEN ReplaceNewlines(testimonies[i].summary)
              ELSE testimony_embeddings[i]]
      /\ output' = [NoOutput EXCEPT !.kind = "embed"]
      /\ UNCHANGED <<testimonies, summary_prompts, gcs, queue, running, fs,
                     openai_client, faults, testimony_chunks, prompt_calls>>

NextBackfill ==
  \/ Submit
  \/ AttemptWithoutClient
  \/ Claim
  \/ Process
  \/ Resummarise
  \/ EmbedExisting

SpecBackfill == Init /\ [][NextBackfill]_vars

\* C19: the embedding stored for a testimony is the one computed from the
\* summary the testimony stores now (the summary on one line).
C19_EmbeddingOfSummary ==
  \A i \in Ids :
    testimony_embeddings[i] # None =>
      /\ testimonies[i].summary # None
      /\ testimony_embeddings[i] = ReplaceNewlines(testimonies[i].summary)


\* ------------------------------------------------ the duplicate lookup alone
\* The fingerprints and origins a lookup is called with; None is the church_id
\* left out.
LookupHashes == {"h1", "h2", "h3"}
LookupChurches == {None, "Lausanne", "Zurich", "Bern"}

\* One call of check_duplicate_testimony: result.data[0]["id"] of the rows
\* the query returned, or None (id 0) when it returned no row. The output
\* keeps the arguments and the value returned.
Lookup ==
  \E audio_hash \in LookupHashes, church_id \in LookupChurches :
    LET data == check_duplicate_testimony(testimonies, audio_hash, church_id)
    IN  /\ \E id \in (IF data # {} THEN data ELSE {0}) :
             output' = [kind |-> "lookup", audio_hash |-> audio_hash,
                        church_id |-> church_id, id |-> id]
        /\ UNCHANGED <<testimonies, summary_prompts, testimony_embeddings,
                       gcs, queue, running, fs, openai_client, faults,
                       testimony_chunks, prompt_calls>>

\* Uploads build the table, lookups read it.
NextLookup == Submit \/ Lookup

SpecLookup == Init /\ [][NextLookup]_vars

\* Row i of the table carries the fingerprint and, when one is given, the
\* origin.
Matches(i, audio_hash, church_id) ==
  /\ testimonies[i].audio_hash = audio_hash
  /\ church_id # None => testimonies[i].church_id = church_id

\* C20: a call of check_duplicate_testimony(audio_hash, church_id) returns the
\* id of a record whose audio_hash is the argument and, when church_id is
\* given, whose church_id is the argument; it returns None exactly when the
\* table holds no such record; and it leaves every table, the bucket and the
\* queue as they were.
C20 ==
  [][output'.kind = "lookup" =>
       /\ UNCHANGED <<testimonies, summary_prompts, testimony_embeddings,
                      gcs, queue, running, fs>>
       /\ output'.id # 0 =>
            /\ output'.id \in Ids
            /\ Matches(output'.id, output'.audio_hash, output'.church_id)
       /\ output'.id = 0 <=>
            ~ \E i \in Ids :
                Matches(i, output'.audio_hash, output'.church_id)]_vars

\* A lookup that named an origin found a record.
C20_Witness ==
  /\ output.kind = "lookup"
  /\ output.church_id # None
  /\ output.id # 0

\* A lookup that named an origin returned None although the table holds a
\* record of that fingerprint under another origin.
C20_WitnessNone ==
  /\ output.kind = "lookup"
  /\ output.id = 0
  /\ \E i \in Ids : testimonies[i].audio_hash = output.audio_hash


\* ------------------------------------------------- the re-summary dry run
\* backfill_resummaries_with_prompt.main(dry_run=True), the whole run: the
\* prompt row is ensured before dry_run is looked at, then a preview is
\* generated for each testimony of the list and nothing is written for it.
ResummariseDryRun ==
  LET registry == get_or_create_summary_prompt(summary_prompts, "summary",
                     SUMMARY_PROMPT_VERSION, CURRENT_SUMMARY_PROMPT,
                     SUMMARY_MODEL, SUMMARY_TEMPERATURE, SUMMARY_MAX_TOKENS)
      todo == get_testimonies_with_transcripts_needing_update(testimonies,
                                                              registry.id)
  IN  /\ summary_prompts' = registry.table
      /\ output' = [NoOutput EXCEPT !.kind = "dry_run",
                                    !.retries = Cardinality(todo)]
      /\ UNCHANGED <<testimonies, testimony_embeddings, gcs, queue, running,
                     fs, openai_client, faults, testimony_chunks, prompt_calls>>

NextDryRun ==
  \/ Submit
  \/ AttemptWithoutClient
  \/ Claim
  \/ Process
  \/ ResummariseDryRun

SpecDryRun == Init /\ [][NextDryRun]_vars

\* C21: a run of backfill_resummaries_with_prompt with --dry-run updates no
\* testimonies row and inserts no summary_prompts row.
C21_NothingWritten ==
  [][output'.kind = "dry_run" => UNCHANGED <<testimonies, summary_prompts>>]_vars


\* ------------------------------------------------------- the tags form field
\* The tags strings submitted, as their characters, up to MaxTagLen long.
TagChars == {"a", " ", ","}
MaxTagLen == 4
RECURSIVE TagsOfLength(_)
TagsOfLength(n) ==
  IF n = 0 THEN {<<>>}
  ELSE {Append(t, c) : t \in TagsOfLength(n - 1), c \in TagChars}
TagInputs == UNION {TagsOfLength(n) : n \in 0..MaxTagLen}

\* str.split(sep): the pieces between the separators, empty pieces included;
\* current is the piece being read.
RECURSIVE Split(_, _, _)
Split(cs, sep, current) ==
  IF cs = <<>> THEN <<current>>
  ELSE IF Head(cs) = sep THEN <<current>> \o Split(Tail(cs), sep, <<>>)
  ELSE Split(Tail(cs), sep, Append(current, Head(cs)))

\* testimony_data["tags"]: [t.strip() for t in tags.split(",")] if tags else []
Tags(tags) ==
  IF tags # <<>>
  THEN LET pieces == Split(tags, ",", <<>>)
       IN  [k \in 1..Len(pieces) |-> RStrip(LStrip(pieces[k]))]
  ELSE <<>>

\* create_testimony building the tags list of the row it inserts.
StoreTags ==
  \E tags \in TagInputs :
    /\ output' = [kind |-> "tags", tags |-> tags, result |-> Tags(tags)]
    /\ UNCHANGED <<testimonies, summary_prompts, testimony_embeddings, gcs,
                   queue, running, fs, openai_client, faults,
                   testimony_chunks, prompt_calls>>

InitTags == Init /\ fs = {} /\ openai_client = "client"

NextTags == StoreTags

SpecTags == InitTags /\ [][NextTags]_vars

\* C22: every entry of the tags list stored for a comma-separated tags string
\* is trimmed of surrounding whitespace, and no entry is the empty string.
C22_TrimmedNoEmpty ==
  output.kind = "tags" =>
    \A k \in 1..Len(output.result) :
      LET entry == output.result[k]
      IN  /\ entry # <<>>
          /\ Head(entry) \notin Whitespace
          /\ entry[Len(entry)] \notin Whitespace


\* ------------------------------------------------------ the indexing sweep
\* str.split() of the transcripts the worker stores.
split(s) ==
  CASE s = "Gloria a Dios" -> <<"Gloria", "a", "Dios">>
    [] OTHER -> <<>>

\* insert_testimony_chunks: the rows are appended to the table in one insert.
insert_testimony_chunks(tbl, rows) == tbl \o rows

\* index_transcript: the table afterwards, and whether make_chunks raised.
index_transcript(tbl, testimony_id, transcript, max_tokens, overlap, punkt) ==
  LET made == make_chunks(split(transcript), max_tokens, overlap, punkt)
      rows == [k \in 1..Len(made.chunks) |->
                 [testimony_id |-> testimony_id,
                  chunk_index |-> made.chunks[k].idx,
                  text |-> made.chunks[k].text,
                  tokens |-> made.chunks[k].tokens]]
  IN  [raised |-> made.raised,
       table |-> IF made.raised THEN tbl ELSE insert_testimony_chunks(tbl, rows)]

\* indexed_ids
IndexedIds(chunks) == { chunks[k].testimony_id : k \in 1..Len(chunks) }

\* A variant of Unindexed without the look at indexed_ids.
UnindexedOrNot(tbl, chunks) ==
  SelectSeq([i \in 1..Len(tbl) |-> i], LAMBDA i : Truthy(tbl[i].transcript))

\* The ids main indexes, in the order of the rows:
\* row["id"] not in indexed_ids and row.get("transcript")
Unindexed(tbl, chunks) ==
  SelectSeq([i \in 1..Len(tbl) |-> i],
            LAMBDA i : i \notin IndexedIds(chunks) /\ Truthy(tbl[i].transcript))

\* The loop of main over the rows left: it ends when a call raises, which
\* embed_texts does for the testimony after the first `embedded` ones.
RECURSIVE Sweep(_, _, _, _, _, _)
Sweep(todo, chunks, embedded, max_tokens, overlap, punkt) ==
  IF todo = <<>> \/ embedded = 0 THEN chunks
  ELSE LET done == index_transcript(chunks, Head(todo),
                                    testimonies[Head(todo)].transcript,
                                    max_tokens, overlap, punkt)
       IN  IF done.raised THEN chunks
           ELSE Sweep(Tail(todo), done.table, embedded - 1,
                      max_tokens, overlap, punkt)

\* index_testimonies.main, one run of the sweep under the configuration
\* (MAX_TOKENS, OVERLAP, punkt installed or not) of that run.
IndexSweep ==
  \E max_tokens \in 1..(MaxWords - 1), overlap \in 0..(MaxWords - 1),
     punkt \in BOOLEAN :
    LET todo == Unindexed(testimonies, testimony_chunks)
    IN  \E embedded \in 0..Len(todo) :
          /\ testimony_chunks' = Sweep(todo, testimony_chunks, embedded,
                                       max_tokens, overlap, punkt)
          /\ output' = [kind |-> "index",
                        skipped |-> IndexedIds(testimony_chunks)]
          /\ UNCHANGED <<testimonies, summary_prompts, testimony_embeddings,
                         gcs, queue, running, fs, openai_client, faults,
                         prompt_calls>>

\* One recording submitted for the default church.
SubmitRecording ==
  /\ create_testimony("", [bytes |-> "full", filename |-> "a.mp3"])
  /\ Len(testimonies') <= MaxTestimonies

InitIndex == InitDuplicates /\ fs = {StorageUrl(f) : f \in Filenames}

NextIndex ==
  \/ SubmitRecording
  \/ Claim
  \/ Process
  \/ IndexSweep

SpecIndex == InitIndex /\ [][NextIndex]_vars

\* The rows of testimony tid in the chunk table.
ChunkRows(tid) ==
  { k \in 1..Len(testimony_chunks) : testimony_chunks[k].testimony_id = tid }

OpenFailed == Raised /\ ~output.result.called

\* C24: the storage locator create_testimony enqueues is one that
\* transcribe_testimony can open, so that the first attempt of the job of an
\* accepted upload on a worker with a client gets to the transcription call
\* (and the record reaches completed when that call returns non-empty text).
C24_LocatorOpens ==
  Attempted /\ output.retries = 0 /\ openai_client # None => ~OpenFailed


\* The workers' volume holds the audio file of every upload when the jobs
\* start, and the worker has its client.
SpecRetry == InitIndex /\ [][NextDuplicates]_vars

\* C25: when a retried attempt of a job opens the audio file at file_path,
\* the file is still there, so that a job whose attempt failed with a
\* transient error can end with the record completed on the retry.
C25_FilePresentOnRetry ==
  Attempted /\ output.retries > 0 => ~OpenFailed

\* No retried attempt gets to the transcription call: the attempt before it
\* removed the file.
RetryNeverTranscribes ==
  Attempted /\ output.retries > 0 =>
    /\ "transcription" \notin output.calls
    /\ Status(output.id) # "completed"


\* ------------------------------------------------------ the gateway alone
\* Requests arrive one after another: any church_id form value with any
\* upload.
SubmitMany ==
  \E church_in \in ChurchInputs, upload \in Uploads :
    /\ create_testimony(church_in, upload)
    /\ Len(testimonies') <= MaxRecords

NextUploads == SubmitMany

SpecUploads == Init /\ [][NextUploads]_vars

\* C26: no accepted upload overwrites the stored audio of another record:
\* the object at the storage_url of a record keeps the bytes uploaded for
\* that record through every later step.
C26_NoOverwrite ==
  [][\A i \in Ids :
       gcs'[testimonies[i].user_file_name] = gcs[testimonies[i].user_file_name]]_vars


\* ------------------------------------------- concurrent prompt registration
\* The configurations the concurrent calls register: the worker's, one of
\* the same template_hash and one of another.
RaceArgs ==
  { WorkerPrompt,
    [WorkerPrompt EXCEPT !.name = "resumen"],
    [WorkerPrompt EXCEPT !.version = "v3"] }

\* template_hash of a configuration, and the rows carrying a hash.
HashOf(args) == TemplateHash(args.prompt_template, args.model_name, args.version)
HashRows(tbl, template_hash) ==
  { i \in 1..Len(tbl) : tbl[i].template_hash = template_hash }

\* The first statement of get_or_create_summary_prompt in one worker process:
\* the select by template_hash. The call returns rows[0]["id"] when the query
\* found a row (limit(1) without an order: any of them), else goes on to the
\* insert.
SelectPrompt(process) ==
  /\ prompt_calls[process].pc \in {"idle", "returned", "raised"}
  /\ \E args \in RaceArgs :
       LET rows == HashRows(summary_prompts, HashOf(args))
       IN  \E id \in (IF rows # {} THEN rows ELSE {NoPrompt}) :
             /\ prompt_calls' = [prompt_calls EXCEPT ![process] =
                  [pc |-> IF id # NoPrompt THEN "returned" ELSE "insert",
                   id |-> id, args |-> args]]
             /\ output' = [kind |-> "select", process |-> process, id |-> id]
  /\ UNCHANGED <<testimonies, summary_prompts, testimony_embeddings, gcs, queue,
                 running, fs, openai_client, faults, testimony_chunks>>

\* The second statement: the insert. The schema is not part of the sources;
\* with a unique index on template_hash the insert of a hash that is already
\* there raises, without one it adds a second row.
InsertPrompt(process) ==
  /\ prompt_calls[process].pc = "insert"
  /\ \E unique \in BOOLEAN :
       LET args == prompt_calls[process].args
           created == create_summary_prompt(summary_prompts, args.name,
                         args.version, args.prompt_template, args.model_name,
                         args.temperature, args.max_tokens)
       IN  IF unique /\ HashRows(summary_prompts, HashOf(args)) # {}
           THEN /\ prompt_calls' = [prompt_calls EXCEPT ![process].pc = "raised"]
                /\ output' = [kind |-> "insert", process |-> process,
                              id |-> NoPrompt]
                /\ UNCHANGED summary_prompts
           ELSE /\ Len(created.table) <= MaxRecords
                /\ summary_prompts' = created.table
                /\ prompt_calls' = [prompt_calls EXCEPT ![process].pc = "returned",
                                                        ![process].id = created.id]
                /\ output' = [kind |-> "insert", process |-> process,
                              id |-> created.id]
  /\ UNCHANGED <<testimonies, testimony_embeddings, gcs, queue, running, fs,
                 openai_client, faults, testimony_chunks>>

NextRace ==
  \/ \E process \in 1..Concurrency : SelectPrompt(process)
  \/ \E process \in 1..Concurrency : InsertPrompt(process)

SpecRace == InitRegistry /\ [][NextRace]_vars

\* C27: under any interleaving of concurrent get_or_create_summary_prompt
\* calls with one (prompt_template, model_name, version), at most one
\* summary_prompts row carries the template_hash, and every call returns the
\* id of that row.
C27_OneRow ==
  \A process \in 1..Concurrency :
    prompt_calls[process].pc \in {"returned", "raised"} =>
      /\ prompt_calls[process].pc = "returned"
      /\ HashRows(summary_prompts, HashOf(prompt_calls[process].args))
           = {prompt_calls[process].id}


\* ------------------------------------------------ store updates that fail
\* The pipeline with a store whose update calls (and a volume whose unlink
\* calls) may raise.
InitFaults == InitCommon /\ faults = TRUE

SpecFaults == InitFaults /\ [][Next]_vars

\* C28: when the last attempt of a job has ended (no retry is scheduled),
\* the record's stored transcript_status is completed, completed_empty or
\* failed, also when a store update issued through update_db_status raised.
C28_TerminalDespiteFaults ==
  faults /\ Attempted /\ output.state # "RETRY" =>
    Status(output.id) \in Terminal


\* C29: after any transcription job, a record has a summary_prompt_id only
\* if it has a non-empty summary.
C29_PromptOnlyWithSummary ==
  \A i \in Ids :
    testimonies[i].summary_prompt_id # NoPrompt => Truthy(testimonies[i].summary)


\* C30: for a non-empty text whose token length exceeds max_tokens, no chunk
\* make_chunks yields has an empty text and a token count of 0.
C30_NoEmptyChunk ==
  Long /\ output.text # <<>> =>
    \A k \in 1..Len(output.result.chunks) :
      ~ /\ output.result.chunks[k].text = <<>>
        /\ output.result.chunks[k].tokens = 0

====
